---- MODULE Spec2Model ----
\* Model of the capture session controller (hooks/useScreenRecorder):
\* the recorder state machine, its refs, the acquisition flows of
\* startRecording, the encoder's events and the elapsed-time ticker.
EXTENDS Integers, Sequences, FiniteSets, TLC

\* ------------------------------------------------------------------ bounds
\* sessions that hold a flow, an encoder, pending events or live tracks at
\* the same time; a session that holds none of these gives its slot back
MaxSessions == 2
\* non-empty chunks one encoder emits
MaxChunks == 1
\* seconds the clock runs
MaxTime == 3
\* starts that are acquiring at the same time
MaxFlows == 1
\* screenshot invocations in progress at the same time
MaxShots == 1
\* formats the platform reports as supported, at most
MaxSupported == 2
\* calls of the negotiator with the same settings on the same platform
MaxCalls == 2
\* files handed to onStop during one application session
MaxCaptures == 3
\* milliseconds the wall clock runs while files are captured
MaxWall == 2
\* the largest width and height a video source reports
MaxDim == 2
\* frames the render loop draws
MaxFrames == 3

Sessions == 1..MaxSessions
Shots == 1..MaxShots

\* ------------------------------------------------------------ vocabulary
RecorderStatus ==
  {"idle", "permission", "acquiring", "recording", "paused", "stopped", "error"}
\* the modes a recording starts in; 'screenshot' goes to takeScreenshot
CaptureMode == {"screen-video", "audio-only", "screen-and-cam"}
CaptureSettings == [mode : CaptureMode, includeMic : BOOLEAN, includeSystemAudio : BOOLEAN]
NoSettings == [mode |-> "none", includeMic |-> FALSE, includeSystemAudio |-> FALSE]

\* tracks of one session: screen video, screen (system) audio, camera,
\* microphone, the compositor's canvas track and the mixer's output track
TrackNames == {"sv", "sa", "cam", "mic", "canvas", "mix"}
DeviceTracks == {"sv", "sa", "cam", "mic"}
NoTracks == [t \in TrackNames |-> "none"]

VARIABLES
  status, error, timer,            \* the hook's React state
  mediaRecorderRef, streamRef,     \* 0 for null, else the session they belong to
  recordedChunksRef, timerIntervalRef,
  captureModeRef, startTimeRef, cleanupCallbacks,
  pc, settings, capturedActive,    \* each start's position, argument and closure
  tracks, finalTracks, onended,    \* the platform's tracks and streams
  recState, recEvents,             \* each encoder's state and queued events
  emitted, recTime, files, tdLog,  \* per session: chunks emitted, seconds spent
                                   \* recording, files handed to onStop, teardown
                                   \* callbacks run
  now, intervals,                  \* the clock, the live setInterval timers
  lastCmd,                         \* "start" after a start command, else "other"
  shotPc, shotTrack, shotFiles,    \* each screenshot's position, the track of its
                                   \* stream, the files it handed to onStop
  mounted,                         \* the component that holds the hook is mounted
  call,                            \* a call of a pure function: its arguments and
                                   \* its results
  compositor,                      \* a call of setupVideoComposition: its wait, its
                                   \* canvas, its render loop
  view, capturedFiles, selectedFile,  \* the application's React state
  objectUrls, urlCount, wall       \* the object URLs allocated and not revoked,
                                   \* the URLs created so far, Date.now() in ms

sessionVars == <<status, error, timer,
          mediaRecorderRef, streamRef, recordedChunksRef, timerIntervalRef,
          captureModeRef, startTimeRef, cleanupCallbacks,
          pc, settings, capturedActive, tracks, finalTracks, onended,
          recState, recEvents, emitted, recTime, files, tdLog,
          now, intervals, lastCmd, shotPc, shotTrack, shotFiles, mounted>>

appVars == <<view, capturedFiles, selectedFile, objectUrls, urlCount, wall>>

vars == <<sessionVars, call, appVars, compositor>>

\* the whole state as one record, so that the routines of the hook can be
\* written as functions from state to state and composed as the code calls them
Cur ==
  [status |-> status, error |-> error, timer |-> timer,
   mediaRecorderRef |-> mediaRecorderRef, streamRef |-> streamRef,
   recordedChunksRef |-> recordedChunksRef, timerIntervalRef |-> timerIntervalRef,
   captureModeRef |-> captureModeRef, startTimeRef |-> startTimeRef,
   cleanupCallbacks |-> cleanupCallbacks,
   pc |-> pc, settings |-> settings, capturedActive |-> capturedActive,
   tracks |-> tracks, finalTracks |-> finalTracks, onended |-> onended,
   recState |-> recState, recEvents |-> recEvents, emitted |-> emitted,
   recTime |-> recTime, files |-> files, tdLog |-> tdLog,
   now |-> now, intervals |-> intervals, lastCmd |-> lastCmd,
   shotPc |-> shotPc, shotTrack |-> shotTrack, shotFiles |-> shotFiles,
   mounted |-> mounted]

ApplyRaw(h) ==
  /\ status' = h.status /\ error' = h.error /\ timer' = h.timer
  /\ mediaRecorderRef' = h.mediaRecorderRef /\ streamRef' = h.streamRef
  /\ recordedChunksRef' = h.recordedChunksRef
  /\ timerIntervalRef' = h.timerIntervalRef
  /\ captureModeRef' = h.captureModeRef /\ startTimeRef' = h.startTimeRef
  /\ cleanupCallbacks' = h.cleanupCallbacks
  /\ pc' = h.pc /\ settings' = h.settings /\ capturedActive' = h.capturedActive
  /\ tracks' = h.tracks /\ finalTracks' = h.finalTracks /\ onended' = h.onended
  /\ recState' = h.recState /\ recEvents' = h.recEvents /\ emitted' = h.emitted
  /\ recTime' = h.recTime /\ files' = h.files /\ tdLog' = h.tdLog
  /\ now' = h.now /\ intervals' = h.intervals /\ lastCmd' = h.lastCmd
  /\ shotPc' = h.shotPc /\ shotTrack' = h.shotTrack /\ shotFiles' = h.shotFiles
  /\ mounted' = h.mounted
  /\ call' = call
  /\ UNCHANGED <<appVars, compositor>>

NoCall == [fn |-> "none"]

InitSession ==
  /\ status = "idle" /\ error = "" /\ timer = 0
  /\ mediaRecorderRef = 0 /\ streamRef = 0
  /\ recordedChunksRef = <<>> /\ timerIntervalRef = FALSE
  /\ captureModeRef = "none" /\ startTimeRef = 0
  /\ cleanupCallbacks = <<>>
  /\ pc = [s \in Sessions |-> "none"]
  /\ settings = [s \in Sessions |-> NoSettings]
  /\ capturedActive = [s \in Sessions |-> FALSE]
  /\ tracks = [s \in Sessions |-> NoTracks]
  /\ finalTracks = [s \in Sessions |-> {}]
  /\ onended = [s \in Sessions |-> FALSE]
  /\ recState = [s \in Sessions |-> "none"]
  /\ recEvents = [s \in Sessions |-> "none"]
  /\ emitted = [s \in Sessions |-> 0]
  /\ recTime = [s \in Sessions |-> 0]
  /\ files = [s \in Sessions |-> <<>>]
  /\ tdLog = [s \in Sessions |-> <<>>]
  /\ now = 0 /\ intervals = 0
  /\ lastCmd = "other"
  /\ shotPc = [i \in Shots |-> "none"]
  /\ shotTrack = [i \in Shots |-> "none"]
  /\ shotFiles = [i \in Shots |-> <<>>]
  /\ mounted = TRUE

NoFile == [id |-> <<>>, url |-> 0, type |-> "none"]

InitApp ==
  /\ view = "permissions"
  /\ capturedFiles = <<>>
  /\ selectedFile = NoFile
  /\ objectUrls = {}
  /\ urlCount = 0
  /\ wall = 0

NoCompositor ==
  [pc |-> "none", ctx |-> FALSE, video |-> <<0, 0>>, canvas |-> <<0, 0>>,
   waited |-> 0, animationId |-> 0, scheduled |-> {}, drawn |-> <<>>]

Init == InitSession /\ call = NoCall /\ InitApp /\ compositor = NoCompositor

\* ------------------------------------------------------------ the clock
\* something reads the clock later: a live interval, or an encoder whose stop
\* handler is still to run
Timing(h) ==
  \/ h.intervals > 0
  \/ \E s \in Sessions : h.recState[s] \in {"recording", "paused"} \/ h.recEvents[s] # "none"

\* The code reads Date.now() only to set startTimeRef.current or to take the
\* difference from it, so states that differ by a shift of the clock's origin
\* behave alike: each state is kept with the origin at startTimeRef.current,
\* and at the present instant while nothing is timing.
ShiftOrigin(h) ==
  IF Timing(h)
  THEN [h EXCEPT !.now = h.now - h.startTimeRef, !.startTimeRef = 0]
  ELSE [h EXCEPT !.now = 0, !.startTimeRef = 0]

\* ------------------------------------------------------ platform helpers
\* track.stop() on every live track among names (MediaStreamTrack.stop)
StopTracks(trs, names) ==
  [t \in TrackNames |-> IF t \in names /\ trs[t] = "live" THEN "ended" ELSE trs[t]]

\* the encoder platform: a recorder that is told to stop, or whose stream has
\* no live track left, becomes inactive at once and queues one task, which
\* fires its last dataavailable event and then its stop event
Inactivate(h, s) ==
  IF h.recState[s] \in {"recording", "paused"}
  THEN [h EXCEPT !.recState[s] = "inactive", !.recEvents[s] = "stop"]
  ELSE h

AnyLive(h, s) == \E t \in h.finalTracks[s] : h.tracks[s][t] = "live"

Cmd(h, name) == [h EXCEPT !.lastCmd = name]

\* ------------------------------------------------------------ the timer
startTimer(h) ==
  [h EXCEPT !.startTimeRef = h.now, !.timerIntervalRef = TRUE, !.intervals = @ + 1]

stopTimer(h) ==
  IF h.timerIntervalRef
  THEN [h EXCEPT !.timerIntervalRef = FALSE, !.intervals = @ - 1]
  ELSE h

\* ------------------------------------------------------------- cleanup
\* cleanupCallbacks.current.forEach(cb => cb()): each callback <<session, kind>>
\* runs, in the order of the list
RECURSIVE RunCallbacks(_, _)
RunCallbacks(log, cbs) ==
  IF cbs = <<>> THEN log
  ELSE RunCallbacks([log EXCEPT ![Head(cbs)[1]] = Append(@, Head(cbs)[2])], Tail(cbs))

\* cleanup without cleanupCallbacks.current = []
cleanup_mut(h) ==
  LET sr == h.streamRef
      h1 == IF sr # 0
            THEN Inactivate([h EXCEPT !.tracks[sr] = StopTracks(@, h.finalTracks[sr]),
                                      !.streamRef = 0], sr)
            ELSE h
      h2 == [h1 EXCEPT !.mediaRecorderRef = 0]
      h3 == stopTimer(h2)
  IN [h3 EXCEPT !.tdLog = RunCallbacks(@, h3.cleanupCallbacks),
                !.recordedChunksRef = <<>>,
                !.timer = 0]

cleanup(h) ==
  LET sr == h.streamRef
      h1 == IF sr # 0
            THEN Inactivate([h EXCEPT !.tracks[sr] = StopTracks(@, h.finalTracks[sr]),
                                      !.streamRef = 0], sr)
            ELSE h
      h2 == [h1 EXCEPT !.mediaRecorderRef = 0]
      h3 == stopTimer(h2)
  IN [h3 EXCEPT !.tdLog = RunCallbacks(@, h3.cleanupCallbacks),
                !.cleanupCallbacks = <<>>,
                !.recordedChunksRef = <<>>,
                !.timer = 0]

\* ------------------------------------------------- the encoder's handlers
handleDataAvailable(h, s, size) ==
  IF size > 0
  THEN [h EXCEPT !.recordedChunksRef = Append(@, <<s, h.emitted[s] + 1>>),
                 !.emitted[s] = @ + 1]
  ELSE h

\* reportOf: the encoder whose reported format mediaRecorderRef.current?.mimeType
\* reads, 0 when the ref is null and the requested format or the default is used
CapturedFileOf(h, s) ==
  [chunks |-> h.recordedChunksRef,
   duration |-> h.now - h.startTimeRef,
   reportOf |-> h.mediaRecorderRef,
   type |-> IF h.captureModeRef = "audio-only" THEN "audio" ELSE "video"]

handleStop(h, s) ==
  IF Len(h.recordedChunksRef) = 0
  THEN cleanup([h EXCEPT !.status = "stopped"])
  ELSE cleanup([h EXCEPT !.files[s] = Append(@, CapturedFileOf(h, s)),
                         !.status = "stopped"])

\* ------------------------------------------------------------ commands
\* the guard of startRecording without its test for 'recording'
StartRejected_mut(st) == st = "acquiring"

StartRejected(st) == st = "recording" \/ st = "acquiring"

\* status === 'recording' || status === 'paused', the test of stopRecording;
\* the stopRecording an onended handler calls is the one of the render its
\* start came from, so what it tests is the status at that start
Active(st) == st = "recording" \/ st = "paused"

\* the first request with the microphone asked for when system audio is set
FirstAwait_mut(set) ==
  IF set.mode = "screen-and-cam" THEN "screen"
  ELSE IF set.includeMic \/ set.includeSystemAudio \/ set.mode = "audio-only" THEN "mic"
  ELSE "screen"

FirstAwait(set) ==
  IF set.mode = "screen-and-cam" THEN "screen"
  ELSE IF set.includeMic \/ set.mode = "audio-only" THEN "mic"
  ELSE "screen"

\* a session that holds no flow, no encoder, no queued event, no live track and
\* nothing in the refs: its slot is free for the next start
Free(h, s) ==
  /\ h.pc[s] \in {"none", "done"}
  /\ h.recState[s] \in {"none", "inactive"}
  /\ h.recEvents[s] = "none"
  /\ h.streamRef # s /\ h.mediaRecorderRef # s
  /\ \A t \in TrackNames : h.tracks[s][t] # "live"
  /\ \A i \in 1..Len(h.recordedChunksRef) : h.recordedChunksRef[i][1] # s
  /\ \A i \in 1..Len(h.cleanupCallbacks) : h.cleanupCallbacks[i][1] # s

Flows(h) == {s \in Sessions : h.pc[s] \notin {"none", "done"}}

FreeSlots(h) == {s \in Sessions : Free(h, s)}

NewSession(h) == CHOOSE s \in FreeSlots(h) : \A r \in FreeSlots(h) : s <= r

\* a session whose flow has returned, whose encoder is gone and which the
\* refs no longer name
Ended(h, s) ==
  /\ h.pc[s] = "done"
  /\ h.recState[s] \in {"none", "inactive"}
  /\ h.recEvents[s] = "none"
  /\ h.streamRef # s /\ h.mediaRecorderRef # s

\* Nothing can reach an ended session's stopped tracks, its stream or its
\* encoder any more: they are dropped. Its live tracks stay, and with a live
\* screen track its onended handler.
Drop(h, s) ==
  LET live == {t \in TrackNames : h.tracks[s][t] = "live"}
      heard == h.onended[s] /\ "sv" \in live
  IN [h EXCEPT !.tracks[s] = [t \in TrackNames |-> IF t \in live THEN "live" ELSE "none"],
               !.finalTracks[s] = {},
               !.onended[s] = heard,
               !.capturedActive[s] = heard /\ @,
               !.recState[s] = "none"]

\* What an ended session emitted and ran is history, kept for as long as it is
\* the last session: it is dropped when a start begins the next session, or at
\* once when the session ends while another one is running.
Forget(h, s) ==
  LET d == Drop(h, s)
  IN [d EXCEPT !.pc[s] = IF \E t \in TrackNames : d.tracks[s][t] = "live"
                         THEN "done" ELSE "none",
               !.emitted[s] = 0, !.recTime[s] = 0,
               !.files[s] = <<>>, !.tdLog[s] = <<>>]

Running(h, s) == h.pc[s] # "none" /\ ~Ended(h, s)

RECURSIVE ForgetEnded(_, _)
ForgetEnded(h, ss) ==
  IF ss = {} THEN h
  ELSE LET s == CHOOSE x \in ss : TRUE
       IN ForgetEnded(IF Ended(h, s) THEN Forget(h, s) ELSE h, ss \ {s})

RECURSIVE Settle(_, _)
Settle(h, ss) ==
  IF ss = {} THEN h
  ELSE LET s == CHOOSE x \in ss : TRUE
           g == IF ~Ended(h, s) THEN h
                ELSE IF \E r \in Sessions \ {s} : Running(h, r) THEN Forget(h, s)
                ELSE Drop(h, s)
       IN Settle(g, ss \ {s})

startRecording(h, set) ==
  IF StartRejected(h.status) THEN h
  ELSE LET c == ForgetEnded(cleanup(h), Sessions)
           s == NewSession(c)
       IN [c EXCEPT !.status = "acquiring",
                    !.error = "",
                    !.captureModeRef = set.mode,
                    !.settings[s] = set,
                    !.capturedActive[s] = Active(h.status),
                    !.pc[s] = FirstAwait(set)]

\* the branch stopRecording takes; active is what the test on the status of
\* its closure gives
StopBranch(h, active) ==
  IF h.mediaRecorderRef # 0 /\ h.recState[h.mediaRecorderRef] # "inactive"
  THEN "encoder"
  ELSE IF active THEN "fallback"
  ELSE "none"

stopRecording(h, active) ==
  CASE StopBranch(h, active) = "encoder" -> stopTimer(Inactivate(h, h.mediaRecorderRef))
    [] StopBranch(h, active) = "fallback" -> [cleanup(h) EXCEPT !.status = "stopped"]
    [] OTHER -> h

\* MediaRecorder.pause() and resume() throw on an inactive recorder, which
\* ends the handler before it changes anything
pauseRecording(h) ==
  IF h.mediaRecorderRef # 0 /\ h.status = "recording"
  THEN IF h.recState[h.mediaRecorderRef] = "inactive" THEN h
       ELSE [stopTimer([h EXCEPT !.recState[h.mediaRecorderRef] = "paused"])
               EXCEPT !.status = "paused"]
  ELSE h

ResumeOrigin(h) == h.now - h.timer

resumeRecording(h) ==
  IF h.mediaRecorderRef # 0 /\ h.status = "paused"
  THEN IF h.recState[h.mediaRecorderRef] = "inactive" THEN h
       ELSE [startTimer([h EXCEPT !.recState[h.mediaRecorderRef] = "recording",
                                  !.startTimeRef = ResumeOrigin(h)])
               EXCEPT !.status = "recording"]
  ELSE h

\* React drops the state updates of a component that is no longer mounted; the
\* refs, the streams and the encoders live on
Unmounted(h) ==
  IF h.mounted THEN h
  ELSE [h EXCEPT !.status = status, !.error = error, !.timer = timer]

Apply(h) == ApplyRaw(ShiftOrigin(Settle(Unmounted(h), Sessions)))

\* ------------------------------------------- the acquisition flow of a start
\* what an acquisition call can answer: the stream, or an error with its name
\* and its message in lower case; a message stands for the phrase it includes
ErrorNames == {"NotAllowedError", "PermissionDeniedError", "NotFoundError"}
ErrorMessages == {"permission denied", "user denied", "declined", "cancelled",
                  "device not found"}
Errors == [name : ErrorNames, message : ErrorMessages]
Ok == [name |-> "ok", message |-> ""]
Outcomes == {Ok} \cup Errors

\* new MediaRecorder(...) throwing, and the throw of the standard branch
EncoderError == [name |-> "NotSupportedError", message |-> "not supported"]
NoTracksError == [name |-> "Error", message |-> "no media tracks were acquired."]

\* isPermissionError without its tests on the message
IsPermissionError_mut(err) ==
  err.name = "NotAllowedError" \/ err.name = "PermissionDeniedError"

IsPermissionError(err) ==
  \/ err.name = "NotAllowedError"
  \/ err.name = "PermissionDeniedError"
  \/ err.message = "permission denied"
  \/ err.message = "user denied"
  \/ err.message = "declined"
  \/ err.message = "cancelled"

Acquire(h, s, names) ==
  [h EXCEPT !.tracks[s] = [t \in TrackNames |-> IF t \in names THEN "live" ELSE @[t]]]

ScreenTracks(set) == IF set.includeSystemAudio THEN {"sv", "sa"} ELSE {"sv"}

FlowEnd(h, s) == [h EXCEPT !.pc[s] = "done", !.settings[s] = NoSettings]

\* the catch block of startRecording
catchStart(h, s, err) ==
  LET c == FlowEnd(cleanup(h), s)
  IN IF IsPermissionError(err)
     THEN [c EXCEPT !.status = "idle"]
     ELSE [c EXCEPT !.error = "start", !.status = "error"]

\* from streamRef.current = finalStream to setStatus('recording')
finishStart(h, s, encOk) ==
  LET h1 == [h EXCEPT !.streamRef = s]
  IN IF encOk
     THEN LET h2 == startTimer([h1 EXCEPT !.mediaRecorderRef = s,
                                          !.recState[s] = "recording"])
              h3 == FlowEnd([h2 EXCEPT !.status = "recording"], s)
          IN IF AnyLive(h3, s) THEN h3 ELSE Inactivate(h3, s)
     ELSE catchStart(h1, s, EncoderError)

\* standard modes: gather the acquired tracks into the final stream
assembleStd(h, s, encOk) ==
  LET got == {t \in {"sv", "sa", "mic"} : h.tracks[s][t] # "none"}
  IN IF got = {}
     THEN catchStart(h, s, NoTracksError)
     ELSE finishStart([h EXCEPT !.finalTracks[s] = got], s, encOk)

\* screen-and-cam: mix the audio, take the composed or the raw screen video
assembleCam(h, s, encOk) ==
  LET hasAudio == h.tracks[s]["sa"] # "none" \/ h.tracks[s]["mic"] # "none"
      h1 == IF hasAudio
            THEN [Acquire(h, s, {"mix"}) EXCEPT
                    !.cleanupCallbacks = Append(@, <<s, "aud">>)]
            ELSE h
      video == IF h.tracks[s]["canvas"] # "none" THEN "canvas" ELSE "sv"
      h2 == [h1 EXCEPT !.finalTracks[s] = {video} \cup (IF hasAudio THEN {"mix"} ELSE {}),
                       !.onended[s] = TRUE]
  IN finishStart(h2, s, encOk)

\* the screen answer without the stop of the microphone stream on a failure
screenResolved_mut(h, s, out, encOk) ==
  LET set == h.settings[s]
  IN IF set.mode = "screen-and-cam"
     THEN IF out = Ok
          THEN [Acquire(h, s, ScreenTracks(set)) EXCEPT !.pc[s] = "cam"]
          ELSE catchStart(h, s, out)
     ELSE IF out = Ok
          THEN assembleStd([Acquire(h, s, ScreenTracks(set)) EXCEPT !.onended[s] = TRUE],
                           s, encOk)
          ELSE catchStart(h, s, out)

screenResolved(h, s, out, encOk) ==
  LET set == h.settings[s]
  IN IF set.mode = "screen-and-cam"
     THEN IF out = Ok
          THEN [Acquire(h, s, ScreenTracks(set)) EXCEPT !.pc[s] = "cam"]
          ELSE catchStart(h, s, out)
     ELSE IF out = Ok
          THEN assembleStd([Acquire(h, s, ScreenTracks(set)) EXCEPT !.onended[s] = TRUE],
                           s, encOk)
          ELSE catchStart([h EXCEPT !.tracks[s] = StopTracks(@, {"mic"})], s, out)

camResolved(h, s, out, encOk) ==
  LET h1 == IF out = Ok THEN Acquire(h, s, {"cam"}) ELSE h
  IN IF h.settings[s].includeMic THEN [h1 EXCEPT !.pc[s] = "mic"]
     ELSE IF out = Ok THEN [h1 EXCEPT !.pc[s] = "compose"]
     ELSE assembleCam(h1, s, encOk)

\* the microphone answer with its failure thrown in every mode
micResolved_mut(h, s, out, encOk) ==
  LET set == h.settings[s]
      h1 == IF out = Ok THEN Acquire(h, s, {"mic"}) ELSE h
  IN IF out # Ok THEN catchStart(h, s, out)
     ELSE IF set.mode = "screen-and-cam"
     THEN IF h.tracks[s]["cam"] # "none" THEN [h1 EXCEPT !.pc[s] = "compose"]
          ELSE assembleCam(h1, s, encOk)
     ELSE IF set.mode = "screen-video" THEN [h1 EXCEPT !.pc[s] = "screen"]
     ELSE assembleStd(h1, s, encOk)

micResolved(h, s, out, encOk) ==
  LET set == h.settings[s]
      h1 == IF out = Ok THEN Acquire(h, s, {"mic"}) ELSE h
  IN IF set.mode = "screen-and-cam"
     THEN IF h.tracks[s]["cam"] # "none" THEN [h1 EXCEPT !.pc[s] = "compose"]
          ELSE assembleCam(h1, s, encOk)
     ELSE IF out # Ok /\ set.mode = "audio-only" THEN catchStart(h, s, out)
     ELSE IF set.mode = "screen-video" THEN [h1 EXCEPT !.pc[s] = "screen"]
     ELSE assembleStd(h1, s, encOk)

composeResolved(h, s, encOk) ==
  assembleCam([Acquire(h, s, {"canvas"}) EXCEPT
                 !.cleanupCallbacks = Append(@, <<s, "vid">>)], s, encOk)

\* the screen-share track ends outside the controller: the onended handler,
\* when set, calls the stopRecording its start captured; a recorder left
\* without a live track stops by itself
trackEnded(h, s) ==
  LET h1 == [h EXCEPT !.tracks[s] = StopTracks(@, {"sv", "sa"})]
      h2 == IF h.onended[s] THEN stopRecording(h1, h.capturedActive[s]) ELSE h1
  IN IF AnyLive(h2, s) THEN h2 ELSE Inactivate(h2, s)

\* one second passes: every live interval callback sets the timer
tick(h) ==
  LET h1 == [h EXCEPT !.now = @ + 1,
                      !.recTime = [s \in Sessions |->
                         IF h.recState[s] = "recording" THEN @[s] + 1 ELSE @[s]]]
  IN IF h1.intervals > 0
     THEN [h1 EXCEPT !.timer = h1.now - h1.startTimeRef]
     ELSE h1

\* ------------------------------------------------------------- actions
Start ==
  \E set \in CaptureSettings :
    /\ mounted
    /\ \/ StartRejected(status)
       \/ /\ FreeSlots(ForgetEnded(cleanup(Cur), Sessions)) # {}
          /\ Cardinality(Flows(Cur)) < MaxFlows
    /\ Apply(Cmd(startRecording(Cur, set), "start"))

ResolveScreen ==
  \E s \in Sessions, out \in Outcomes, encOk \in BOOLEAN :
    /\ pc[s] = "screen"
    /\ Apply(Cmd(screenResolved(Cur, s, out, encOk), "other"))

ResolveCam ==
  \E s \in Sessions, out \in Outcomes, encOk \in BOOLEAN :
    /\ pc[s] = "cam"
    /\ Apply(Cmd(camResolved(Cur, s, out, encOk), "other"))

ResolveMic ==
  \E s \in Sessions, out \in Outcomes, encOk \in BOOLEAN :
    /\ pc[s] = "mic"
    /\ Apply(Cmd(micResolved(Cur, s, out, encOk), "other"))

ResolveCompose ==
  \E s \in Sessions, encOk \in BOOLEAN :
    /\ pc[s] = "compose"
    /\ Apply(Cmd(composeResolved(Cur, s, encOk), "other"))

\* the stop, pause and resume commands, which the hook takes in any status
\* for as long as its component is mounted
Stop ==
  /\ mounted
  /\ Apply(Cmd(stopRecording(Cur, Active(status)), "other"))

Pause ==
  /\ mounted
  /\ Apply(Cmd(pauseRecording(Cur), "other"))

Resume ==
  /\ mounted
  /\ Apply(Cmd(resumeRecording(Cur), "other"))

EncoderData ==
  \E s \in Sessions, size \in {0, 1} :
    /\ recState[s] = "recording"
    /\ size > 0 => emitted[s] < MaxChunks
    /\ Apply(Cmd(handleDataAvailable(Cur, s, size), "other"))

EncoderStopped ==
  \E s \in Sessions, size \in {0, 1} :
    /\ recEvents[s] = "stop"
    /\ size > 0 => emitted[s] < MaxChunks
    /\ Apply(Cmd(handleStop(handleDataAvailable([Cur EXCEPT !.recEvents[s] = "none"],
                                                s, size), s), "other"))

TrackEnd ==
  \E s \in Sessions :
    /\ tracks[s]["sv"] = "live"
    /\ Apply(Cmd(trackEnded(Cur, s), "other"))

\* a queued encoder event runs within the second it was queued in
Tick ==
  /\ Timing(Cur)
  /\ \A s \in Sessions : recEvents[s] = "none"
  /\ now - startTimeRef < MaxTime
  /\ \A s \in Sessions : recTime[s] < MaxTime
  /\ Apply(Cmd(tick(Cur), "other"))

\* the sessions and their interleavings, with the clock held still: the timer
\* and the clock are written and shown but never tested by the code
Next ==
  \/ Start
  \/ ResolveScreen
  \/ ResolveCam
  \/ ResolveMic
  \/ ResolveCompose
  \/ Stop
  \/ Pause
  \/ Resume
  \/ EncoderData
  \/ EncoderStopped
  \/ TrackEnd

Spec == Init /\ [][Next]_vars

\* no start is acquiring, no encoder is active and no encoder event is queued
Quiet(h) ==
  \A s \in Sessions :
    /\ h.pc[s] \in {"none", "done"}
    /\ h.recState[s] \in {"none", "inactive"}
    /\ h.recEvents[s] = "none"

\* a start command given once the session before it has come to rest
StartQuiet ==
  \E set \in CaptureSettings :
    /\ mounted
    /\ \/ StartRejected(status)
       \/ /\ Quiet(Cur)
          /\ FreeSlots(ForgetEnded(cleanup(Cur), Sessions)) # {}
    /\ Apply(Cmd(startRecording(Cur, set), "start"))

\* sessions one after the other, with the clock running
NextTimed ==
  \/ StartQuiet
  \/ ResolveScreen
  \/ ResolveCam
  \/ ResolveMic
  \/ ResolveCompose
  \/ Stop
  \/ Pause
  \/ Resume
  \/ EncoderData
  \/ EncoderStopped
  \/ TrackEnd
  \/ Tick

SpecTimed == Init /\ [][NextTimed]_vars

\* ------------------------------------------------------------- unmount
\* the cleanup function of the hook's effect: cleanup(), once, when the
\* component is unmounted; a start that is acquiring goes on
unmount(h) == [cleanup(h) EXCEPT !.mounted = FALSE]

Unmount ==
  /\ mounted
  /\ Apply(Cmd(unmount(Cur), "other"))

\* one session after the other, and the unmount at any moment
NextUnmount ==
  \/ StartQuiet
  \/ ResolveScreen
  \/ ResolveCam
  \/ ResolveMic
  \/ ResolveCompose
  \/ Stop
  \/ Pause
  \/ Resume
  \/ EncoderData
  \/ EncoderStopped
  \/ TrackEnd
  \/ Unmount

SpecUnmount == Init /\ [][NextUnmount]_vars

\* ------------------------------------------------- the capture controls
\* App: isRecording, which hides the start button's use and shows the widget
isRecording(st) == st = "recording" \/ st = "paused"

\* CaptureControls: isActionable
isActionable(st) == st = "idle" \/ st = "stopped"

\* the disabled attribute of the start button
StartDisabled(st) == ~isActionable(st) \/ isRecording(st)

\* ------------------------------------------------------- takeScreenshot
ImageFormats == {"png", "jpeg"}

\* what the drawing step can throw: no 2d context, or drawImage failing
DrawErrors == {[name |-> "Error", message |-> "could not get canvas context"],
               [name |-> "InvalidStateError", message |-> "draw failed"]}
BlobError == [name |-> "Error", message |-> "failed to create blob from canvas."]

\* the test of the catch block of takeScreenshot
IsShotCancel(err) ==
  \/ err.name = "NotAllowedError"
  \/ err.name = "PermissionDeniedError"
  \/ err.message = "permission denied"

\* the catch block without its stop of the stream's tracks
shotCatch_mut(h, i, err) ==
  LET h1 == [h EXCEPT !.shotPc[i] = "done"]
  IN IF IsShotCancel(err) THEN h1 ELSE [h1 EXCEPT !.error = "shot"]

\* the catch block: stop the stream when it is still held, swallow a
\* cancellation, set the message for anything else
shotCatch(h, i, err) ==
  LET h1 == [h EXCEPT !.shotTrack[i] = IF @ = "live" THEN "ended" ELSE @,
                      !.shotPc[i] = "done"]
  IN IF IsShotCancel(err) THEN h1 ELSE [h1 EXCEPT !.error = "shot"]

\* the call with a cleanup() of the recording session at its start
takeScreenshot_mut(h, i) ==
  [cleanup(h) EXCEPT !.shotPc[i] = "display", !.shotTrack[i] = "none",
                     !.shotFiles[i] = <<>>]

\* the call, up to await getDisplayMedia
takeScreenshot(h, i) ==
  [h EXCEPT !.shotPc[i] = "display", !.shotTrack[i] = "none", !.shotFiles[i] = <<>>]

shotDisplayResolved(h, i, out) ==
  IF out = Ok
  THEN [h EXCEPT !.shotTrack[i] = "live", !.shotPc[i] = "frame"]
  ELSE shotCatch(h, i, out)

\* the wait for a frame ends (metadata, play or the 1.5 s timeout)
shotFrameReady(h, i) == [h EXCEPT !.shotPc[i] = "settle"]

\* after the 200 ms delay: draw, stop the tracks, ask for the blob
shotDraw(h, i, out) ==
  IF out = Ok
  THEN [h EXCEPT !.shotTrack[i] = "ended", !.shotPc[i] = "blob"]
  ELSE shotCatch(h, i, out)

\* canvas.toBlob answered: onStop with the image, or the throw on a null blob
shotBlobResolved(h, i, fmt, blobOk) ==
  IF blobOk
  THEN [h EXCEPT !.shotFiles[i] =
                    Append(@, [type |-> "image", extension |-> fmt,
                               stream |-> h.shotTrack[i]]),
                 !.shotPc[i] = "done"]
  ELSE shotCatch(h, i, BlobError)

Screenshot ==
  \E i \in Shots :
    /\ mounted
    /\ shotPc[i] \in {"none", "done"}
    /\ Apply(Cmd(takeScreenshot(Cur, i), "other"))

ShotDisplay ==
  \E i \in Shots, out \in Outcomes :
    /\ shotPc[i] = "display"
    /\ Apply(Cmd(shotDisplayResolved(Cur, i, out), "other"))

ShotFrame ==
  \E i \in Shots :
    /\ shotPc[i] = "frame"
    /\ Apply(Cmd(shotFrameReady(Cur, i), "other"))

ShotDraw ==
  \E i \in Shots, out \in {Ok} \cup DrawErrors :
    /\ shotPc[i] = "settle"
    /\ Apply(Cmd(shotDraw(Cur, i, out), "other"))

ShotBlob ==
  \E i \in Shots, fmt \in ImageFormats, blobOk \in BOOLEAN :
    /\ shotPc[i] = "blob"
    /\ Apply(Cmd(shotBlobResolved(Cur, i, fmt, blobOk), "other"))

\* one recording session after the other, with screenshots at any moment
NextShot ==
  \/ StartQuiet
  \/ ResolveScreen
  \/ ResolveCam
  \/ ResolveMic
  \/ ResolveCompose
  \/ Stop
  \/ Pause
  \/ Resume
  \/ EncoderData
  \/ EncoderStopped
  \/ TrackEnd
  \/ Screenshot
  \/ ShotDisplay
  \/ ShotFrame
  \/ ShotDraw
  \/ ShotBlob

SpecShot == Init /\ [][NextShot]_vars

\* ------------------------------------------------- getSupportedMimeType
AudioCandidates ==
  <<"audio/mp4; codecs=mp4a.40.2", "audio/mp4", "audio/webm; codecs=opus",
    "audio/webm", "audio/ogg; codecs=opus", "audio/ogg">>

Mp4Candidates ==
  <<"video/mp4; codecs=\"avc1.42E01E, mp4a.40.2\"",
    "video/mp4; codecs=\"avc1.64001E, mp4a.40.2\"",
    "video/mp4", "video/webm; codecs=h264">>

WebmCandidates ==
  <<"video/webm; codecs=vp9", "video/webm; codecs=\"vp9,opus\"",
    "video/webm; codecs=vp8", "video/webm", "video/mp4">>

Range(seq) == {seq[k] : k \in 1..Len(seq)}

\* the formats a platform may support: the candidates and one that is none
MimeTypes ==
  Range(AudioCandidates) \cup Range(Mp4Candidates) \cup Range(WebmCandidates)
    \cup {"video/x-matroska"}

\* a platform: whether MediaRecorder is defined, and what isTypeSupported accepts
Platforms ==
  [hasRecorder : BOOLEAN,
   supported : {S \in SUBSET MimeTypes : Cardinality(S) <= MaxSupported}]

\* the settings the negotiator reads
NegotiatorSettings == [mode : CaptureMode, container : {"mp4", "webm"}]

\* isSupported answering true whenever MediaRecorder is defined
isSupported_mut(p, type) == p.hasRecorder

isSupported(p, type) == p.hasRecorder /\ type \in p.supported

\* candidates.find(isSupported) || ''
RECURSIVE find(_, _)
find(cands, p) ==
  IF cands = <<>> THEN ""
  ELSE IF isSupported(p, Head(cands)) THEN Head(cands)
  ELSE find(Tail(cands), p)

\* the list with the WebM preferences put before the MP4 ones
Candidates_mut(set) ==
  IF set.mode = "audio-only" THEN AudioCandidates
  ELSE WebmCandidates \o (IF set.container = "mp4" THEN Mp4Candidates ELSE <<>>)

Candidates(set) ==
  IF set.mode = "audio-only" THEN AudioCandidates
  ELSE (IF set.container = "mp4" THEN Mp4Candidates ELSE <<>>) \o WebmCandidates

getSupportedMimeType(set, p) == find(Candidates(set), p)

InitNegotiate ==
  /\ InitSession
  /\ InitApp
  /\ compositor = NoCompositor
  /\ \E set \in NegotiatorSettings, p \in Platforms :
       call = [fn |-> "getSupportedMimeType", settings |-> set, platform |-> p,
               calls |-> 0, first |-> "", result |-> ""]

Negotiate ==
  /\ call.fn = "getSupportedMimeType"
  /\ call.calls < MaxCalls
  /\ LET r == getSupportedMimeType(call.settings, call.platform)
     IN call' = [call EXCEPT !.calls = @ + 1,
                             !.first = IF call.calls = 0 THEN r ELSE @,
                             !.result = r]
  /\ UNCHANGED <<sessionVars, appVars, compositor>>

NextNegotiate == Negotiate

SpecNegotiate == InitNegotiate /\ [][NextNegotiate]_vars

\* ------------------------------------------------ setupVideoComposition
\* the fallback timeout of the wait for the metadata, in seconds, and the
\* fallback size of the canvas
WaitTimeout == 2
FallbackWidth == 1920
FallbackHeight == 1080

\* what videoWidth and videoHeight report: both zero while the size of the
\* frames is not known, both positive once it is
KnownDims == (1..MaxDim) \X (1..MaxDim)
Dims == {<<0, 0>>} \cup KnownDims

\* canvas.width = videoWidth || 1920, canvas.height = videoHeight || 1080,
\* without the defaults
canvasSize_mut(video) == video

canvasSize(video) ==
  <<IF video[1] # 0 THEN video[1] ELSE FallbackWidth,
    IF video[2] # 0 THEN video[2] ELSE FallbackHeight>>

\* from the end of the wait to the return: size the canvas, request the first
\* frame; scheduled holds the ids of the requests not yet run or cancelled
startLoop(c) ==
  [c EXCEPT !.pc = "run", !.canvas = canvasSize(c.video),
            !.animationId = 1, !.scheduled = {1}]

\* the body of draw, run for the request id
draw(c, id) ==
  LET c1 == [c EXCEPT !.scheduled = @ \ {id}]
      resized == IF c.video[1] # 0 /\ (c.canvas[1] # c.video[1] \/ c.canvas[2] # c.video[2])
                 THEN c.video ELSE c.canvas
  IN IF ~c.ctx THEN c1
     ELSE [c1 EXCEPT !.canvas = resized,
                     !.drawn = Append(@, resized),
                     !.animationId = @ + 1,
                     !.scheduled = @ \cup {c.animationId + 1}]

\* the teardown action setupVideoComposition returns
vidCleanup(c) == [c EXCEPT !.pc = "torn", !.scheduled = @ \ {c.animationId}]

\* the call: the canvas and its context, the video elements, the wait
SetupVideoComposition ==
  \E ctx \in BOOLEAN :
    /\ compositor.pc = "none"
    /\ compositor' = [NoCompositor EXCEPT !.pc = "wait", !.ctx = ctx]
    /\ UNCHANGED <<sessionVars, call, appVars>>

\* onloadedmetadata: the size of the screen video is known, the wait ends
LoadedMetadata ==
  \E d \in KnownDims :
    /\ compositor.pc = "wait"
    /\ compositor' = startLoop([compositor EXCEPT !.video = d])
    /\ UNCHANGED <<sessionVars, call, appVars>>

\* a second of the wait passes; the timeout fires before a third one does
WaitTick ==
  /\ compositor.pc = "wait"
  /\ compositor.waited < WaitTimeout
  /\ compositor' = [compositor EXCEPT !.waited = @ + 1]
  /\ UNCHANGED <<sessionVars, call, appVars>>

\* setTimeout(resolve, 2000)
WaitTimedOut ==
  /\ compositor.pc = "wait"
  /\ compositor.waited = WaitTimeout
  /\ compositor' = startLoop(compositor)
  /\ UNCHANGED <<sessionVars, call, appVars>>

\* the screen video reports another size, or none any more
DimsChange ==
  \E d \in Dims :
    /\ compositor.pc = "run"
    /\ d # compositor.video
    /\ compositor' = [compositor EXCEPT !.video = d]
    /\ UNCHANGED <<sessionVars, call, appVars>>

\* the display refreshes: a scheduled request runs draw
AnimationFrame ==
  \E id \in compositor.scheduled :
    /\ compositor.pc \in {"run", "torn"}
    /\ Len(compositor.drawn) < MaxFrames
    /\ compositor' = draw(compositor, id)
    /\ UNCHANGED <<sessionVars, call, appVars>>

\* cleanup() of the hook runs the registered teardown action
VidCleanup ==
  /\ compositor.pc = "run"
  /\ compositor' = vidCleanup(compositor)
  /\ UNCHANGED <<sessionVars, call, appVars>>

NextCompositor ==
  \/ SetupVideoComposition
  \/ LoadedMetadata
  \/ WaitTick
  \/ WaitTimedOut
  \/ DimsChange
  \/ AnimationFrame
  \/ VidCleanup

SpecCompositor == Init /\ [][NextCompositor]_vars

\* ------------------------------------------- the format of handleStop
\* A format string is held as the sequence of its parts: the type, the
\* container and the codecs, so that 'video/webm; codecs="vp9,opus"' is
\* <<"video", "webm", "vp9", "opus">> and the empty string is <<>>.
RequestedFormats ==
  {<<"audio", "mp4", "mp4a.40.2">>, <<"audio", "mp4">>, <<"audio", "webm", "opus">>,
   <<"audio", "webm">>, <<"audio", "ogg", "opus">>, <<"audio", "ogg">>,
   <<"video", "mp4", "avc1.42E01E", "mp4a.40.2">>,
   <<"video", "mp4", "avc1.64001E", "mp4a.40.2">>,
   <<"video", "mp4">>, <<"video", "webm", "h264">>, <<"video", "webm", "vp9">>,
   <<"video", "webm", "vp9", "opus">>, <<"video", "webm", "vp8">>,
   <<"video", "webm">>}

\* what an encoder may report besides: Matroska with H.264 and Opus or AAC,
\* PCM in WAV, MP3 under its registered type and under audio/mp3
ReportedFormats ==
  RequestedFormats \cup
    {<<"video", "x-matroska", "avc1", "opus">>,
     <<"video", "x-matroska", "avc1", "mp4a.40.2">>,
     <<"audio", "wav">>, <<"audio", "mpeg">>, <<"audio", "mp3">>}

\* whether a part of a format string contains one of the substrings the
\* code searches for: a part contains itself, and the AAC codec name
\* mp4a.40.2 contains mp4
PartIncludes(part, sub) == part = sub \/ (sub = "mp4" /\ part = "mp4a.40.2")

\* String.prototype.includes
includes(fmt, sub) == \E k \in 1..Len(fmt) : PartIncludes(fmt[k], sub)

\* String.prototype.replace with a string pattern: the first occurrence only
replace(fmt, sub, by) ==
  IF ~includes(fmt, sub) THEN fmt
  ELSE LET k == CHOOSE i \in 1..Len(fmt) :
                  /\ PartIncludes(fmt[i], sub)
                  /\ \A j \in 1..(i - 1) : ~PartIncludes(fmt[j], sub)
       IN [fmt EXCEPT ![k] = by]

\* the format handleStop tags the payload with: reported is the encoder's
\* mimeType, <<>> when the ref is null or the encoder reports none; requested
\* is activeMimeTypeRef.current
resolveMimeType(mode, reported, requested) ==
  LET fallback == IF requested # <<>> THEN requested
                  ELSE IF mode = "audio-only" THEN <<"audio", "webm">>
                  ELSE <<"video", "webm">>
      m == IF reported # <<>> THEN reported ELSE fallback
  IN IF mode = "audio-only" /\ includes(m, "video") THEN replace(m, "video", "audio")
     ELSE m

fileTypeOf(mode) == IF mode = "audio-only" THEN "audio" ELSE "video"

fileExtension(mimeType, fileType) ==
  IF includes(mimeType, "mp4") THEN (IF fileType = "audio" THEN "m4a" ELSE "mp4")
  ELSE IF includes(mimeType, "wav") THEN "wav"
  ELSE IF includes(mimeType, "ogg") THEN "ogg"
  ELSE IF includes(mimeType, "mp3") THEN "mp3"
  ELSE IF includes(mimeType, "x-matroska") THEN "mkv"
  ELSE "webm"

InitFormat ==
  /\ InitSession
  /\ InitApp
  /\ compositor = NoCompositor
  /\ \E mode \in CaptureMode, reported \in ReportedFormats \cup {<<>>},
        requested \in RequestedFormats \cup {<<>>} :
       call = [fn |-> "handleStop", mode |-> mode, reported |-> reported,
               requested |-> requested, done |-> FALSE,
               mimeType |-> <<>>, type |-> "", extension |-> ""]

\* handleStop from the format to the name of the file
Finalize ==
  /\ call.fn = "handleStop"
  /\ ~call.done
  /\ LET m == resolveMimeType(call.mode, call.reported, call.requested)
         t == fileTypeOf(call.mode)
     IN call' = [call EXCEPT !.done = TRUE, !.mimeType = m, !.type = t,
                             !.extension = fileExtension(m, t)]
  /\ UNCHANGED <<sessionVars, appVars, compositor>>

NextFormat == Finalize

SpecFormat == InitFormat /\ [][NextFormat]_vars

\* ------------------------------------------- the application's file list
FileTypes == {"video", "audio", "image"}

\* new Date().toISOString(): the instant in UTC to the millisecond, one string
\* for each millisecond and the same string within it
toISOString(ms) == <<"1970-01-01T00:00:00", ms, "Z">>

\* URL.createObjectURL: a new URL, which stays allocated until it is revoked
createObjectURL(n) == n + 1

\* the file handleStop and takeScreenshot build for onStop
CapturedFile(ms, url, type) == [id |-> toISOString(ms), url |-> url, type |-> type]

\* files.filter(f => f.id !== id)
RECURSIVE filter(_, _)
filter(fs, id) ==
  IF fs = <<>> THEN <<>>
  ELSE IF Head(fs).id # id THEN <<Head(fs)>> \o filter(Tail(fs), id)
  ELSE filter(Tail(fs), id)

\* the hook hands a file to onStop, which is addCapturedFile
AddCapturedFile ==
  \E type \in FileTypes :
    /\ urlCount < MaxCaptures
    /\ LET url == createObjectURL(urlCount)
       IN /\ urlCount' = url
          /\ objectUrls' = objectUrls \cup {url}
          /\ capturedFiles' = <<CapturedFile(wall, url, type)>> \o capturedFiles
    /\ view' = "gallery"
    /\ UNCHANGED <<selectedFile, wall, sessionVars, call, compositor>>

HandlePermissionsGranted ==
  /\ view = "permissions"
  /\ view' = "capture"
  /\ UNCHANGED <<capturedFiles, selectedFile, objectUrls, urlCount, wall, sessionVars, call, compositor>>

\* the buttons of the header
SetView ==
  \E v \in {"capture", "gallery"} :
    /\ ~isRecording(status)
    /\ view' = v
    /\ UNCHANGED <<capturedFiles, selectedFile, objectUrls, urlCount, wall, sessionVars, call, compositor>>

HandleSelectFile ==
  \E k \in 1..Len(capturedFiles) :
    /\ view = "gallery"
    /\ selectedFile' = capturedFiles[k]
    /\ view' = "editor"
    /\ UNCHANGED <<capturedFiles, objectUrls, urlCount, wall, sessionVars, call, compositor>>

HandleCloseEditor ==
  /\ view = "editor" /\ selectedFile # NoFile
  /\ selectedFile' = NoFile
  /\ view' = "gallery"
  /\ UNCHANGED <<capturedFiles, objectUrls, urlCount, wall, sessionVars, call, compositor>>

\* the delete button of a card of the gallery, or of the editor
HandleDeleteFile ==
  \E id \in {capturedFiles[k].id : k \in 1..Len(capturedFiles)} \cup {selectedFile.id} :
    /\ \/ view = "gallery" /\ \E k \in 1..Len(capturedFiles) : capturedFiles[k].id = id
       \/ view = "editor" /\ selectedFile # NoFile /\ selectedFile.id = id
    /\ capturedFiles' = filter(capturedFiles, id)
    /\ IF selectedFile.id = id
       THEN selectedFile' = NoFile /\ view' = "gallery"
       ELSE UNCHANGED <<selectedFile, view>>
    /\ UNCHANGED <<objectUrls, urlCount, wall, sessionVars, call, compositor>>

\* a millisecond passes
WallTick ==
  /\ wall < MaxWall
  /\ wall' = wall + 1
  /\ UNCHANGED <<view, capturedFiles, selectedFile, objectUrls, urlCount, sessionVars, call, compositor>>

NextGallery ==
  \/ AddCapturedFile
  \/ HandlePermissionsGranted
  \/ SetView
  \/ HandleSelectFile
  \/ HandleCloseEditor
  \/ HandleDeleteFile
  \/ WallTick

SpecGallery == Init /\ [][NextGallery]_vars

\* ------------------------------------------------------------- the claims
\* what the hook holds: its state, its refs, the flows of its starts
hookState == <<status, error, timer, mediaRecorderRef, streamRef, recordedChunksRef,
               timerIntervalRef, captureModeRef, cleanupCallbacks, pc, settings,
               startTimeRef, capturedActive, tracks, finalTracks, onended,
               recState, recEvents, intervals, now>>

LiveDevices(s) == {t \in DeviceTracks : tracks[s][t] = "live"}

ActiveEncoders == {s \in Sessions : recState[s] \in {"recording", "paused"}}

\* C1: a start command given while the status is acquiring or recording changes
\* nothing: the status, the encoder and stream refs, the chunks, the ticker and
\* the teardown list stay as they are and no acquisition flow begins.
C1_StartWhileBusyIsNoOp ==
  [][(lastCmd' = "start" /\ status \in {"acquiring", "recording"})
       => UNCHANGED hookState]_vars

\* a start command was given while recording and was turned down
C1_Witness == lastCmd = "start" /\ status = "recording" /\ mediaRecorderRef # 0

\* C2: at no time is more than one encoder recording or paused, and at no time
\* do more than one session's device tracks live.
C2_OneEncoderOneDeviceSet ==
  /\ Cardinality(ActiveEncoders) <= 1
  /\ Cardinality({s \in Sessions : LiveDevices(s) # {}}) <= 1

\* C3: a start command given while the status is paused is turned down and
\* leaves the paused session as it is.
C3_StartWhilePausedIsNoOp ==
  [][(lastCmd' = "start" /\ status = "paused") => UNCHANGED hookState]_vars

\* C4: while one session stays recording or paused, through pause and resume,
\* the elapsed seconds shown never go down.
C4_TimerNeverGoesBack ==
  [][(/\ Active(status) /\ Active(status')
      /\ mediaRecorderRef # 0 /\ mediaRecorderRef' = mediaRecorderRef)
       => timer' >= timer]_vars

\* C5: when the screen track of the current session ends while the status is
\* recording or paused, the handler takes the branch of stopRecording that an
\* explicit stop takes in that state.
C5_TrackEndIsStop ==
  \A s \in Sessions :
    (streamRef = s /\ onended[s] /\ tracks[s]["sv"] = "live" /\ Active(status))
      => StopBranch(Cur, capturedActive[s]) = StopBranch(Cur, Active(status))

\* C6: when the status is idle, stopped or error, no session whose start has
\* returned has a live device track.
C6_NoLiveDeviceAfterEnd ==
  status \in {"idle", "stopped", "error"}
    => \A s \in Sessions : pc[s] \in {"none", "done"} => LiveDevices(s) = {}

\* C7: a session that has ended and whose encoder emitted a non-empty chunk
\* was handed to onStop exactly once.
C7_OneCallbackPerSession ==
  \A s \in Sessions :
    (Ended(Cur, s) /\ emitted[s] > 0) => Len(files[s]) = 1

\* C8: the stop handler that finds the chunk list empty sets the status to
\* stopped, releases the resources of the session and does not call onStop.
C8_EmptyStop ==
  \A s \in Sessions :
    (recEvents[s] = "stop" /\ streamRef = s /\ recordedChunksRef = <<>>)
      => LET h == handleStop([Cur EXCEPT !.recEvents[s] = "none"], s)
         IN /\ h.status = "stopped"
            /\ h.files = files
            /\ h.mediaRecorderRef = 0 /\ h.streamRef = 0
            /\ ~h.timerIntervalRef /\ h.cleanupCallbacks = <<>>
            /\ \A t \in TrackNames : h.tracks[s][t] # "live"

\* C9: cleanup run a second time changes nothing and runs no teardown
\* callback again; with nothing to release it leaves the state as it is.
C9_CleanupIdempotent ==
  /\ cleanup(cleanup(Cur)) = cleanup(Cur)
  /\ (streamRef = 0 /\ mediaRecorderRef = 0 /\ ~timerIntervalRef
      /\ cleanupCallbacks = <<>> /\ recordedChunksRef = <<>> /\ timer = 0)
       => cleanup(Cur) = Cur

\* a session with a stream, an encoder, a ticker, chunks and both teardown
\* callbacks, which the first cleanup releases
C9_Witness ==
  /\ streamRef # 0 /\ mediaRecorderRef # 0 /\ timerIntervalRef
  /\ Len(cleanupCallbacks) = 2 /\ recordedChunksRef # <<>>
  /\ cleanup(Cur) # Cur

\* C10: the duration of a file handed to onStop is the time its encoder
\* spent recording, paused time left out.
C10_DurationIsRecordingTime ==
  \A s \in Sessions : \A i \in 1..Len(files[s]) :
    files[s][i].duration = recTime[s]

\* C11: every change of the status is one of: idle or stopped to acquiring,
\* acquiring to recording, to idle or to error, recording to paused, paused to
\* recording, recording or paused to stopped.
C11_OnlyListedTransitions ==
  [][status' # status =>
       <<status, status'>> \in
         {<<"idle", "acquiring">>, <<"stopped", "acquiring">>,
          <<"acquiring", "recording">>, <<"acquiring", "idle">>,
          <<"acquiring", "error">>, <<"recording", "paused">>,
          <<"paused", "recording">>, <<"recording", "stopped">>,
          <<"paused", "stopped">>}]_vars

\* C12, as stated: a fatal acquisition failure ends the start: with a denial
\* or cancellation signal (by name or by message) the status is idle and the
\* error message is empty, otherwise the status is error and the message set;
\* no file is handed to onStop and the start has no encoder.
C12_ErrorStaysEmpty ==
  \A s \in Sessions : \A err \in Errors :
    LET denial == \/ err.name \in {"NotAllowedError", "PermissionDeniedError"}
                  \/ err.message \in {"permission denied", "user denied",
                                      "declined", "cancelled"}
        h == IF pc[s] = "screen" THEN screenResolved(Cur, s, err, TRUE)
             ELSE micResolved(Cur, s, err, TRUE)
    IN (pc[s] = "screen" \/ (pc[s] = "mic" /\ settings[s].mode = "audio-only"))
         => /\ h.pc[s] = "done"
            /\ h.status = IF denial THEN "idle" ELSE "error"
            /\ (h.error = "" <=> denial)
            /\ h.files = files
            /\ h.mediaRecorderRef # s /\ h.recState[s] = "none"

\* C12, amended: as above, but on a denial signal the failure handler leaves
\* the error message as it finds it (empty unless something else set one since
\* the start), instead of the message being empty.
C12_AcquisitionFailure ==
  \A s \in Sessions : \A err \in Errors :
    LET denial == \/ err.name \in {"NotAllowedError", "PermissionDeniedError"}
                  \/ err.message \in {"permission denied", "user denied",
                                      "declined", "cancelled"}
        h == IF pc[s] = "screen" THEN screenResolved(Cur, s, err, TRUE)
             ELSE micResolved(Cur, s, err, TRUE)
    IN (pc[s] = "screen" \/ (pc[s] = "mic" /\ settings[s].mode = "audio-only"))
         => /\ h.pc[s] = "done"
            /\ h.status = IF denial THEN "idle" ELSE "error"
            /\ IF denial THEN h.error = error ELSE h.error # ""
            /\ h.files = files
            /\ h.mediaRecorderRef # s /\ h.recState[s] = "none"

\* a start that was cancelled: back to idle, its flow returned
C12_Witness ==
  /\ status = "idle" /\ error = ""
  /\ \E s \in Sessions : pc[s] = "done" /\ recState[s] = "none" /\ files[s] = <<>>

C14_CameraDenied ==
  \A s \in Sessions :
    LET Shape(h) ==
          /\ h.pc[s] = "done" /\ h.status = "recording" /\ h.mediaRecorderRef = s
          /\ h.tracks[s]["canvas"] = "none"
          /\ \A k \in 1..Len(h.cleanupCallbacks) : h.cleanupCallbacks[k] # <<s, "vid">>
          /\ h.finalTracks[s] =
               {"sv"} \cup (IF h.tracks[s]["sa"] # "none" \/ h.tracks[s]["mic"] # "none"
                            THEN {"mix"} ELSE {})
    IN /\ (pc[s] = "cam" /\ ~settings[s].includeMic)
            => \A err \in Errors : Shape(camResolved(Cur, s, err, TRUE))
       /\ (pc[s] = "cam" /\ settings[s].includeMic)
            => \A err \in Errors : camResolved(Cur, s, err, TRUE).pc[s] = "mic"
       /\ (pc[s] = "mic" /\ settings[s].mode = "screen-and-cam"
           /\ tracks[s]["cam"] = "none")
            => \A out \in Outcomes : Shape(micResolved(Cur, s, out, TRUE))
       /\ (finalTracks[s] = {"sv", "mix"} /\ recEvents[s] = "stop" /\ emitted[s] > 0)
            => LET h == handleStop([Cur EXCEPT !.recEvents[s] = "none"], s)
               IN Len(h.files[s]) = 1 /\ h.files[s][1].type = "video"

\* C15: a screenshot that waits for its blob or has returned holds no live
\* track, and the track was stopped when onStop was called.
C15_ShotTracksStopped ==
  \A i \in Shots :
    /\ shotPc[i] \in {"blob", "done"} => shotTrack[i] # "live"
    /\ \A k \in 1..Len(shotFiles[i]) : shotFiles[i][k].stream = "ended"

\* a screenshot that failed after it had acquired the stream
C15_Witness ==
  \E i \in Shots :
    shotPc[i] = "done" /\ shotTrack[i] = "ended" /\ shotFiles[i] = <<>> /\ error = "shot"

\* C16: no step of a screenshot changes the status, the encoder, the recording
\* stream, the chunks, the ticker, the timer or the teardown list.
C16_ShotLeavesRecording ==
  [][shotPc' # shotPc =>
       UNCHANGED <<status, mediaRecorderRef, streamRef, recordedChunksRef,
                   timerIntervalRef, timer, cleanupCallbacks, recState,
                   recEvents, tracks, intervals>>]_vars

\* a screenshot taken to its end while a session is paused with chunks
C16_Witness ==
  \E i \in Shots :
    /\ shotPc[i] = "done" /\ Len(shotFiles[i]) = 1
    /\ status = "paused" /\ mediaRecorderRef # 0 /\ recordedChunksRef # <<>>

\* C17: a screenshot whose screen request is refused with a denial signal (by
\* name or by message) sets no error message and emits no file, any other
\* refusal sets a message, and the status stays as it is.
C17_ShotCancelIsSilent ==
  \A i \in Shots : \A err \in Errors :
    shotPc[i] = "display" =>
      LET denial == \/ err.name \in {"NotAllowedError", "PermissionDeniedError"}
                    \/ err.message \in {"permission denied", "user denied",
                                        "declined", "cancelled"}
          h == shotDisplayResolved(Cur, i, err)
      IN /\ h.status = status
         /\ h.shotFiles = shotFiles
         /\ IF denial THEN h.error = error ELSE h.error # ""

\* C18: a file is tagged with the format reported by the encoder that
\* recorded it.
C18_FormatOfOwnEncoder ==
  \A s \in Sessions : \A k \in 1..Len(files[s]) : files[s][k].reportOf = s

C21_MicReleasedOnScreenFailure ==
  \A s \in Sessions : \A err \in Errors :
    (pc[s] = "screen" /\ settings[s].mode = "screen-video" /\ tracks[s]["mic"] = "live")
      => LET h == screenResolved(Cur, s, err, TRUE)
         IN /\ h.tracks[s]["mic"] = "ended"
            /\ h.pc[s] = "done"
            /\ h.status = IF IsPermissionError(err) THEN "idle" ELSE "error"
            /\ h.mediaRecorderRef # s /\ h.recState[s] = "none"

\* a screen-video start that holds a live microphone track and waits for the
\* screen, whose cancellation takes it to idle
C21_Witness ==
  \E s \in Sessions :
    /\ pc[s] = "screen" /\ settings[s].mode = "screen-video"
    /\ tracks[s]["mic"] = "live"
    /\ screenResolved(Cur, s, [name |-> "NotAllowedError", message |-> "cancelled"],
                      TRUE).status = "idle"

\* C22: when the status is error, the start button of the capture controls is
\* enabled and a start command moves the status to acquiring.
C22_StartAvailableAfterError ==
  status = "error"
    => /\ ~StartDisabled(status)
       /\ \A set \in CaptureSettings : startRecording(Cur, set).status = "acquiring"

\* C23: no two files of the file list have the same identifier.
C23_IdentifiersDiffer ==
  \A j, k \in 1..Len(capturedFiles) :
    j # k => capturedFiles[j].id # capturedFiles[k].id

\* C24: every object URL still allocated belongs to a file of the file list:
\* the URL of a deleted file is released.
C24_HandleReleasedOnDelete ==
  objectUrls = {capturedFiles[k].url : k \in 1..Len(capturedFiles)}

\* C25: the payload of every file handed to onStop is the sequence of the
\* non-empty chunks the encoder of its session emitted, in the order of their
\* emission, and a session that has ended after emitting a chunk has a file.
C25_PayloadIsSessionChunks ==
  \A s \in Sessions :
    /\ \A k \in 1..Len(files[s]) :
         files[s][k].chunks = [n \in 1..emitted[s] |-> <<s, n>>]
    /\ (Ended(Cur, s) /\ emitted[s] > 0) => files[s] # <<>>

\* C26: once the component is unmounted and no start is acquiring any more, no
\* device track is live, no encoder is recording or paused, no ticker runs
\* and no teardown callback is registered.
C26_NothingLeftAfterUnmount ==
  (~mounted /\ Flows(Cur) = {})
    => /\ \A s \in Sessions : LiveDevices(s) = {}
       /\ ActiveEncoders = {}
       /\ intervals = 0 /\ ~timerIntervalRef
       /\ cleanupCallbacks = <<>>

\* C27: the status is never recording or paused for a session whose screen
\* track has ended unless the encoder of that session has been told to stop,
\* so that its stop event takes the status to stopped.
C27_EndedScreenStopsSession ==
  \A s \in Sessions :
    (mediaRecorderRef = s /\ tracks[s]["sv"] = "ended" /\ Active(status))
      => recState[s] = "inactive"

\* C28: while the status stays paused the elapsed seconds do not change and no
\* ticker runs, and while the status is recording exactly one ticker runs.
C28_OneTickerWhileRecording ==
  [][/\ (status = "paused" /\ status' = "paused") => timer' = timer
     /\ status' = "paused" => intervals' = 0
     /\ status' = "recording" => intervals' = 1]_vars

\* C29: no teardown callback of a session runs twice, the compositor's runs
\* before the mixer's, none runs while it is still registered, and a registered
\* callback belongs to the session the mounted hook holds, whose end runs it.
C29_TeardownOnceWhenSessionEnds ==
  \A s \in Sessions :
    /\ tdLog[s] \in {<<>>, <<"vid">>, <<"aud">>, <<"vid", "aud">>}
    /\ \A k \in 1..Len(cleanupCallbacks) :
         cleanupCallbacks[k][1] = s
           => /\ \A n \in 1..Len(tdLog[s]) : tdLog[s][n] # cleanupCallbacks[k][2]
              /\ mounted /\ streamRef = s

\* C30: the negotiator answers the first supported candidate of its list: no
\* candidate before its answer is supported, it answers the empty string only
\* when none is, and between the classes of formats the order is: for
\* audio-only, audio mp4 before audio webm before audio ogg; for video with the
\* mp4 container, the mp4 variants with codecs, then plain mp4, then webm with
\* h264, then the vp9, vp8 and plain webm variants.
C30_FirstSupportedWins ==
  (call.fn = "getSupportedMimeType" /\ call.calls > 0)
    => LET set == call.settings
           p == call.platform
           r == call.result
           cands == Candidates(set)
           sup(t) == p.hasRecorder /\ t \in p.supported
           AudioOrder == << {"audio/mp4; codecs=mp4a.40.2", "audio/mp4"},
                            {"audio/webm; codecs=opus", "audio/webm"},
                            {"audio/ogg; codecs=opus", "audio/ogg"} >>
           Mp4Order == << {"video/mp4; codecs=\"avc1.42E01E, mp4a.40.2\"",
                           "video/mp4; codecs=\"avc1.64001E, mp4a.40.2\""},
                          {"video/mp4"},
                          {"video/webm; codecs=h264"},
                          {"video/webm; codecs=vp9", "video/webm; codecs=\"vp9,opus\"",
                           "video/webm; codecs=vp8", "video/webm"} >>
           order == IF set.mode = "audio-only" THEN AudioOrder
                    ELSE IF set.container = "mp4" THEN Mp4Order
                    ELSE <<>>
       IN /\ \A k \in 1..Len(cands) :
               sup(cands[k]) => \E j \in 1..k : cands[j] = r /\ sup(r)
          /\ (\A k \in 1..Len(cands) : ~sup(cands[k])) => r = ""
          /\ \A i, j \in 1..Len(order) :
               (i < j /\ \E t \in order[i] : sup(t)) => r \notin order[j]

\* with the mp4 container, plain mp4 was answered on a platform that
\* supports a webm variant as well
C30_Witness ==
  /\ call.fn = "getSupportedMimeType" /\ call.calls > 0
  /\ call.settings.mode # "audio-only" /\ call.settings.container = "mp4"
  /\ call.result = "video/mp4"
  /\ "video/webm; codecs=vp9" \in call.platform.supported

\* the extensions that go with a container
ExtensionsOf(container) ==
  CASE container = "mp4" -> {"mp4", "m4a"}
    [] container = "webm" -> {"webm"}
    [] container = "ogg" -> {"ogg"}
    [] container = "wav" -> {"wav"}
    [] container = "x-matroska" -> {"mkv"}
    [] container \in {"mpeg", "mp3"} -> {"mp3"}
    [] OTHER -> {}

\* C31: a format naming mp4 gives mp4 for a video and m4a for an audio file,
\* one naming wav, ogg, mp3 or matroska its own extension, any other webm, and
\* the extension is one of the container of the format the payload is tagged
\* with.
C31_ExtensionAgreesWithContainer ==
  (call.fn = "handleStop" /\ call.done)
    => LET m == call.mimeType
           e == call.extension
       IN /\ includes(m, "mp4") => e = (IF call.type = "audio" THEN "m4a" ELSE "mp4")
          /\ (~includes(m, "mp4") /\ e # "webm")
               => \/ \E x \in {"wav", "ogg", "mp3"} : (includes(m, x) /\ e = x)
                  \/ (includes(m, "x-matroska") /\ e = "mkv")
          /\ e \in ExtensionsOf(m[2])

\* C32: the stop event of an audio-only session (its stream is the microphone
\* track alone) hands onStop no file of a kind other than audio.
C32_AudioSessionGivesAudioFile ==
  \A s \in Sessions : \A size \in {0, 1} :
    (finalTracks[s] = {"mic"} /\ recEvents[s] = "stop")
      => LET h == handleStop(handleDataAvailable([Cur EXCEPT !.recEvents[s] = "none"],
                                                 s, size), s)
         IN \A k \in 1..Len(h.files[s]) : h.files[s][k].type = "audio"

\* C33: the wait of the compositor's setup lasts no longer than its timeout,
\* after which the canvas has a size, and every frame is drawn on a canvas
\* whose width and height are both positive.
C33_SurfaceNeverZero ==
  /\ compositor.pc = "wait" => compositor.waited <= WaitTimeout
  /\ compositor.pc \in {"run", "torn"}
       => /\ compositor.canvas[1] > 0 /\ compositor.canvas[2] > 0
          /\ \A k \in 1..Len(compositor.drawn) :
               compositor.drawn[k][1] > 0 /\ compositor.drawn[k][2] > 0

\* the wait timed out, the first frame was drawn at the fallback size and a
\* later one at the size the source reported afterwards
C33_Witness ==
  /\ compositor.pc = "run" /\ compositor.waited = WaitTimeout
  /\ Len(compositor.drawn) >= 2
  /\ compositor.drawn[1] = <<FallbackWidth, FallbackHeight>>
  /\ compositor.drawn[2] \in KnownDims

\* C34: once the teardown action has run no render request is scheduled and
\* no frame is drawn any more, and while the compositor runs exactly one
\* render request is scheduled.
C34_LoopStopsOnTeardown ==
  [][/\ compositor'.pc = "torn"
          => /\ compositor'.scheduled = {}
             /\ compositor.pc = "torn" => compositor'.drawn = compositor.drawn
     /\ compositor'.pc = "run" => Cardinality(compositor'.scheduled) = 1]_vars

\* C35: when the status is error there is an error message; and, for every
\* step, a message is cleared only by a start command that takes the status
\* to acquiring; and a cancellation, of a start or of a screenshot, by any
\* denial signal, sets no message.
C35_ErrorMessageDiscipline ==
  [][LET Denials == {err \in Errors :
                       \/ err.name \in {"NotAllowedError", "PermissionDeniedError"}
                       \/ err.message \in {"permission denied", "user denied",
                                           "declined", "cancelled"}}
     IN /\ status' = "error" => error' # ""
        /\ (error # "" /\ error' = "") => (lastCmd' = "start" /\ status' = "acquiring")
        /\ \A s \in Sessions : \A err \in Denials :
             pc[s] = "screen" => screenResolved(Cur, s, err, TRUE).error = error
        /\ \A i \in Shots : \A err \in Denials :
             shotPc[i] = "display" => shotDisplayResolved(Cur, i, err).error = error]_vars

\* C36: the stop event of an encoder, with its last data, that arrives while
\* the hook holds another session (a start that is acquiring, or the stream
\* or the encoder of another session) leaves that session's tracks, encoder,
\* teardown callbacks and chunk list and the status as they are.
C36_LateEventsAreHarmless ==
  \A s \in Sessions : \A r \in Sessions \ {s} : \A size \in {0, 1} :
    (/\ recEvents[s] = "stop"
     /\ pc[r] \notin {"none", "done"} \/ streamRef = r \/ mediaRecorderRef = r)
      => LET h == handleStop(handleDataAvailable([Cur EXCEPT !.recEvents[s] = "none"],
                                                 s, size), s)
         IN /\ h.status = status
            /\ h.tracks[r] = tracks[r]
            /\ h.recState[r] = recState[r]
            /\ h.mediaRecorderRef = mediaRecorderRef /\ h.streamRef = streamRef
            /\ h.tdLog[r] = tdLog[r]
            /\ \A k \in 1..Len(h.recordedChunksRef) : h.recordedChunksRef[k][1] = r

====
